---- MODULE Spec2Model ----
(***************************************************************************)
(* skip_list<KeyType> (includes/skip_list.hpp) as a state machine.         *)
(*                                                                         *)
(* The heap is modelled explicitly: every node lives at an address, the    *)
(* sentinel at sentinel_head_, real nodes at the addresses `new` hands     *)
(* out.  forward[n] is the node's vector of forward pointers (level i is   *)
(* element i+1 of the sequence), value[n] its key.  A freed or never       *)
(* allocated address has an empty forward vector.                          *)
(*                                                                         *)
(* The algorithms are operators on a container record c (the fields of     *)
(* the object and the heap behind it), so that they can be evaluated on    *)
(* the state before and on the state after a call.                         *)
(*                                                                         *)
(* Every pointer dereference and every vector index of the code is         *)
(* guarded in the model: a null or dangling dereference, or an index out   *)
(* of range, ends the operation with status "ub"; a walk longer than the   *)
(* heap has nodes (a cyclic chain) ends it with status "hang".  Both are   *)
(* absorbing: what the build does after undefined behaviour is not         *)
(* modelled, the claims state that these states are never entered.         *)
(*                                                                         *)
(* The code compares node addresses for equality only, so a behaviour and  *)
(* its image under a renaming of the addresses are the same behaviour.     *)
(* The allocator is therefore taken to place the node of key k at address  *)
(* NodeOf(k) whenever that address is free: one representative of every    *)
(* class of behaviours.                                                    *)
(***************************************************************************)
EXTENDS Integers, Sequences, FiniteSets

\* ------------------------------------------------------------------ bounds
\* keys are the integers 0..MaxKey
MaxKey == 2

Keys == 0..MaxKey

\* ------------------------------------------------------- program constants
MAX_HEIGHT == 16

nullptr == 0
sentinel_head_ == 1
\* the addresses `new` can hand out for real nodes, one per key
NodeOf(k) == sentinel_head_ + 1 + k
NodeAddrs == {NodeOf(k) : k \in Keys}
Addrs == {sentinel_head_} \cup NodeAddrs
MaxNodes == Cardinality(NodeAddrs)

\* Number of consecutive draws below promotion_probability_ the random
\* engine delivers before the first draw at or above it.
FlipRuns == {0, 1, 2, MAX_HEIGHT + 1}

\* The runs of heads of the second container: its coin never wins, so each
\* of its nodes has height 1.  A container that agrees with this one whatever
\* its own draws agrees with every other container given the same calls.
TwinRuns == {0}

\* markers of an abnormal end of a walk
UB == -1
HANG == -2

\* the caller holds no iterator
NoIterator == -3

VARIABLES
    forward,          \* SkipNode::forward of every address
    value,            \* SkipNode::value of every address
    allocated,        \* addresses holding a live SkipNode
    current_height_,
    element_count_,
    status,           \* "ok", "ub" or "hang"
    last,             \* the last call: operation, argument, result
    inserted,         \* history: keys inserted and not since erased or cleared
    round_trip,       \* history: phase of a fill-then-drain scenario
    current_node_,    \* iterator::current_node_ of the caller's iterator, if any
    advances,         \* history: operator++ calls on that iterator since begin()
    twin              \* a second skip_list given the same calls: its object, its
                      \* heap and the result of its last call

vars == <<forward, value, allocated, current_height_, element_count_, status, last,
          inserted, round_trip, current_node_, advances, twin>>

\* the container before and after a step
Now ==
    [forward |-> forward, value |-> value, allocated |-> allocated,
     current_height_ |-> current_height_, element_count_ |-> element_count_]

After ==
    [forward |-> forward', value |-> value', allocated |-> allocated',
     current_height_ |-> current_height_', element_count_ |-> element_count_']

\* ---------------------------------------------------------------- helpers
NullVector(n) == [i \in 1..n |-> nullptr]

\* p->forward[i] can be read: p is a live node and i indexes its vector
CanRead(c, p, i) == p \in c.allocated /\ i >= 0 /\ i < Len(c.forward[p])

Call(op, arg, ret, pos, drawn) ==
    [op |-> op, arg |-> arg, ret |-> ret, pos |-> pos, drawn |-> drawn]

\* the call completed: the object and the heap become c
Commit(c) ==
    /\ forward' = c.forward
    /\ value' = c.value
    /\ allocated' = c.allocated
    /\ current_height_' = c.current_height_
    /\ element_count_' = c.element_count_
    /\ status' = "ok"

\* ------------------------------------------------- generateRandomHeight
\* the loop bound admits one increment too many
RECURSIVE HeightLoopLE(_, _)
HeightLoopLE(height, run) ==
    IF run > 0 /\ height <= MAX_HEIGHT THEN HeightLoopLE(height + 1, run - 1) ELSE height

RECURSIVE HeightLoop(_, _)
HeightLoop(height, run) ==
    IF run > 0 /\ height < MAX_HEIGHT
    THEN HeightLoop(height + 1, run - 1)
    ELSE height

\* int height = 0;
generateRandomHeightZero(run) == HeightLoop(0, run)

generateRandomHeight(run) == HeightLoop(1, run)

\* ------------------------------------------------------------ constructor
Init ==
    /\ forward = [a \in Addrs |-> IF a = sentinel_head_ THEN NullVector(MAX_HEIGHT) ELSE <<>>]
    /\ value = [a \in Addrs |-> 0]
    /\ allocated = {sentinel_head_}
    /\ current_height_ = 0
    /\ element_count_ = 0
    /\ status = "ok"
    /\ last = Call("init", 0, "void", nullptr, 0)
    /\ inserted = {}
    /\ round_trip = "off"
    /\ current_node_ = NoIterator
    /\ advances = 0
    /\ twin = [forward |-> [a \in Addrs |-> IF a = sentinel_head_ THEN NullVector(MAX_HEIGHT)
                                                                   ELSE <<>>],
               value |-> [a \in Addrs |-> 0],
               allocated |-> {sentinel_head_},
               current_height_ |-> 0,
               element_count_ |-> 0,
               ret |-> "void",
               pos |-> nullptr]

\* ---------------------------------------------------------------- history
\* inserted is the set a caller expects the container to hold: insert(v) that
\* returns adds v, erase(v) that returns removes v, clear empties it.
\* round_trip is "fill" while, starting from an empty container, only keys
\* not yet inserted have been inserted; "drain" while, after a fill that
\* inserted every key, only keys still expected have been erased.
FillNext(v) ==
    IF (inserted = {} \/ round_trip = "fill") /\ v \notin inserted THEN "fill" ELSE "off"

DrainNext(v) ==
    IF ((round_trip = "fill" /\ inserted = Keys) \/ round_trip = "drain") /\ v \in inserted
    THEN "drain" ELSE "off"

\* ------------------------------------------------------ search-path descent
\* while (current->forward[i] && current->forward[i]->value <= value): a
\* descent that also steps over the node holding the key
RECURSIVE WalkLevelLE(_, _, _, _, _)
WalkLevelLE(c, cur, i, v, fuel) ==
    IF ~CanRead(c, cur, i) THEN UB
    ELSE LET nxt == c.forward[cur][i + 1] IN
         IF nxt = nullptr THEN cur
         ELSE IF nxt \notin c.allocated THEN UB
         ELSE IF c.value[nxt] <= v
              THEN IF fuel = 0 THEN HANG ELSE WalkLevelLE(c, nxt, i, v, fuel - 1)
              ELSE cur

\* while (current->forward[i] && current->forward[i]->value < value)
\*     current = current->forward[i];
RECURSIVE WalkLevel(_, _, _, _, _)
WalkLevel(c, cur, i, v, fuel) ==
    IF ~CanRead(c, cur, i) THEN UB
    ELSE LET nxt == c.forward[cur][i + 1] IN
         IF nxt = nullptr THEN cur
         ELSE IF nxt \notin c.allocated THEN UB
         ELSE IF c.value[nxt] < v
              THEN IF fuel = 0 THEN HANG ELSE WalkLevel(c, nxt, i, v, fuel - 1)
              ELSE cur

\* update_path[i] is recorded before the walk along level i
RECURSIVE SearchPathStale(_, _, _, _, _)
SearchPathStale(c, cur, i, v, path) ==
    IF i < 0 THEN [current |-> cur, update_path |-> path]
    ELSE LET nxt == WalkLevel(c, cur, i, v, MaxNodes) IN
         IF nxt < 0 THEN [current |-> nxt, update_path |-> path]
         ELSE IF i >= Len(path) THEN [current |-> UB, update_path |-> path]
         ELSE SearchPathStale(c, nxt, i - 1, v, [path EXCEPT ![i + 1] = cur])

\* for (int i = current_height_ - 1; i >= 0; --i) { walk; update_path[i] = current; }
RECURSIVE SearchPath(_, _, _, _, _)
SearchPath(c, cur, i, v, path) ==
    IF i < 0 THEN [current |-> cur, update_path |-> path]
    ELSE LET nxt == WalkLevel(c, cur, i, v, MaxNodes) IN
         IF nxt < 0 THEN [current |-> nxt, update_path |-> path]
         ELSE IF i >= Len(path) THEN [current |-> UB, update_path |-> path]
         ELSE SearchPath(c, nxt, i - 1, v, [path EXCEPT ![i + 1] = nxt])

\* the same descent without an update path (contains, find)
RECURSIVE Locate(_, _, _, _)
Locate(c, cur, i, v) ==
    IF i < 0 THEN cur
    ELSE LET nxt == WalkLevel(c, cur, i, v, MaxNodes) IN
         IF nxt < 0 THEN nxt ELSE Locate(c, nxt, i - 1, v)

\* the candidate is read from the top link of the final position
SuccessorTop(c, cur) ==
    IF cur < 0 THEN cur
    ELSE IF ~CanRead(c, cur, 0) THEN UB
    ELSE c.forward[cur][Len(c.forward[cur])]

\* current = current->forward[0];
Successor0(c, cur) ==
    IF cur < 0 THEN cur
    ELSE IF ~CanRead(c, cur, 0) THEN UB
    ELSE c.forward[cur][1]

\* current: any successor counts as a match
MatchesAny(c, cand, v) ==
    cand # nullptr /\ cand \in c.allocated

\* current && current->value == value
Matches(c, cand, v) ==
    cand # nullptr /\ cand \in c.allocated /\ c.value[cand] = v

\* the candidate is a dangling pointer whose value the code reads
Dangling(c, cand) == cand # nullptr /\ cand \notin c.allocated

Abort(op, v, mark) ==
    /\ status' = (IF mark = HANG THEN "hang" ELSE "ub")
    /\ last' = Call(op, v, "none", nullptr, 0)
    /\ UNCHANGED <<forward, value, allocated, current_height_, element_count_,
                   inserted, round_trip>>

\* ------------------------------------------------------------------ insert
\* if (newHeight > current_height_) current_height_ = newHeight;
RaisedHeight(c, newHeight) ==
    IF newHeight > c.current_height_ THEN newHeight ELSE c.current_height_

\* for (int i = current_height_; i < newHeight; ++i) update_path[i] = sentinel_head_;
RaisePath(c, path, newHeight) ==
    [k \in 1..Len(path) |->
        IF k - 1 >= c.current_height_ /\ k - 1 < newHeight THEN sentinel_head_ ELSE path[k]]

\* the splice without newNode->forward[i] = update_path[i]->forward[i]
RECURSIVE SpliceDropsTail(_, _, _, _, _)
SpliceDropsTail(c, path, newNode, i, newHeight) ==
    IF i >= newHeight THEN [ok |-> TRUE, c |-> c]
    ELSE IF i >= Len(path) \/ ~CanRead(c, newNode, i) THEN [ok |-> FALSE, c |-> c]
    ELSE LET p == path[i + 1] IN
         IF ~CanRead(c, p, i) THEN [ok |-> FALSE, c |-> c]
         ELSE SpliceDropsTail([c EXCEPT !.forward[p][i + 1] = newNode],
                              path, newNode, i + 1, newHeight)

\* the splice links the new node at level 0 only
RECURSIVE SpliceLevel0Only(_, _, _, _, _)
SpliceLevel0Only(c, path, newNode, i, newHeight) ==
    IF i >= newHeight \/ i >= 1 THEN [ok |-> TRUE, c |-> c]
    ELSE IF i >= Len(path) \/ ~CanRead(c, newNode, i) THEN [ok |-> FALSE, c |-> c]
    ELSE LET p == path[i + 1] IN
         IF ~CanRead(c, p, i) THEN [ok |-> FALSE, c |-> c]
         ELSE LET c1 == [c EXCEPT !.forward[newNode][i + 1] = c.forward[p][i + 1]]
                  c2 == [c1 EXCEPT !.forward[p][i + 1] = newNode]
              IN SpliceLevel0Only(c2, path, newNode, i + 1, newHeight)

\* the two statements of the splice are swapped
RECURSIVE SpliceSwapped(_, _, _, _, _)
SpliceSwapped(c, path, newNode, i, newHeight) ==
    IF i >= newHeight THEN [ok |-> TRUE, c |-> c]
    ELSE IF i >= Len(path) \/ ~CanRead(c, newNode, i) THEN [ok |-> FALSE, c |-> c]
    ELSE LET p == path[i + 1] IN
         IF ~CanRead(c, p, i) THEN [ok |-> FALSE, c |-> c]
         ELSE LET c1 == [c EXCEPT !.forward[p][i + 1] = newNode]
                  c2 == [c1 EXCEPT !.forward[newNode][i + 1] = c1.forward[p][i + 1]]
              IN SpliceSwapped(c2, path, newNode, i + 1, newHeight)

\* for (int i = 0; i < newHeight; ++i) {
\*     newNode->forward[i] = update_path[i]->forward[i];
\*     update_path[i]->forward[i] = newNode; }
RECURSIVE Splice(_, _, _, _, _)
Splice(c, path, newNode, i, newHeight) ==
    IF i >= newHeight THEN [ok |-> TRUE, c |-> c]
    ELSE IF i >= Len(path) \/ ~CanRead(c, newNode, i) THEN [ok |-> FALSE, c |-> c]
    ELSE LET p == path[i + 1] IN
         IF ~CanRead(c, p, i) THEN [ok |-> FALSE, c |-> c]
         ELSE LET c1 == [c EXCEPT !.forward[newNode][i + 1] = c.forward[p][i + 1]]
                  c2 == [c1 EXCEPT !.forward[p][i + 1] = newNode]
              IN Splice(c2, path, newNode, i + 1, newHeight)

\* new SkipNode(newHeight, value): the address handed out, nullptr standing
\* for std::bad_alloc.  The allocator hands out NodeOf(v) when it is free and
\* the lowest free address otherwise; it may also fail at any time, and must
\* fail when no address is free.
NewNode(c, v) ==
    IF NodeOf(v) \notin c.allocated THEN NodeOf(v)
    ELSE IF NodeAddrs \ c.allocated = {} THEN nullptr
    ELSE CHOOSE a \in NodeAddrs \ c.allocated : \A b \in NodeAddrs \ c.allocated : a <= b

\* SkipNode(int level, const KeyType& val) : value(val), forward(level, nullptr)
Construct(c, a, newHeight, v) ==
    [c EXCEPT !.allocated = @ \cup {a},
              !.forward[a] = NullVector(newHeight),
              !.value[a] = v]

\* The part of insert after the duplicate check.  run is the outcome of the
\* coin flips, enough whether the allocator has memory left.
InsertNew(v, run, enough, path) ==
    LET newHeight == generateRandomHeight(run)
        path2 == RaisePath(Now, path, newHeight)
        c1 == [Now EXCEPT !.current_height_ = RaisedHeight(Now, newHeight)]
        a == IF enough THEN NewNode(c1, v) ELSE nullptr
    IN IF newHeight > Len(path) /\ newHeight > current_height_
       THEN Abort("insert", v, UB)
       ELSE IF a = nullptr
       THEN /\ Commit(c1)
            /\ last' = Call("insert", v, "bad_alloc", nullptr, newHeight)
            /\ round_trip' = "off"
            /\ UNCHANGED inserted
       ELSE LET s == Splice(Construct(c1, a, newHeight, v), path2, a, 0, newHeight)
            IN IF ~s.ok THEN Abort("insert", v, UB)
               ELSE /\ Commit([s.c EXCEPT !.element_count_ = @ + 1])
                    /\ last' = Call("insert", v, "true", nullptr, newHeight)
                    /\ inserted' = inserted \cup {v}
                    /\ round_trip' = FillNext(v)

\* a height is drawn before the duplicate check
InsertDuplicateDraws(v) ==
    /\ last' = Call("insert", v, "false", nullptr, 1)
    /\ inserted' = inserted \cup {v}
    /\ round_trip' = FillNext(v)
    /\ UNCHANGED <<forward, value, allocated, current_height_, element_count_, status>>

\* if (current && current->value == value) return false;
InsertDuplicate(v) ==
    /\ last' = Call("insert", v, "false", nullptr, 0)
    /\ inserted' = inserted \cup {v}
    /\ round_trip' = FillNext(v)
    /\ UNCHANGED <<forward, value, allocated, current_height_, element_count_, status>>

Insert(v) ==
    /\ status = "ok"
    /\ UNCHANGED <<current_node_, advances, twin>>
    /\ LET d == SearchPath(Now, sentinel_head_, current_height_ - 1, v, NullVector(MAX_HEIGHT))
           cand == Successor0(Now, d.current)
       IN IF cand < 0 THEN Abort("insert", v, cand)
          ELSE IF Dangling(Now, cand) THEN Abort("insert", v, UB)
          ELSE IF Matches(Now, cand, v) THEN InsertDuplicate(v)
          ELSE \E run \in FlipRuns, enough \in BOOLEAN :
                   InsertNew(v, run, enough, d.update_path)

\* ------------------------------------------------- size, empty, begin, end
size(c) == c.element_count_

\* the list is taken to be empty when no level is populated
emptyByHeight(c) == c.current_height_ = 0

empty(c) == c.element_count_ = 0

begin(c) == c.forward[sentinel_head_][1]
end == nullptr

\* ------------------------------------------------------------------- erase
\* the unlink with update_path[i]->forward[i] = nullptr
RECURSIVE UnlinkDropsTail(_, _, _, _)
UnlinkDropsTail(c, path, current, i) ==
    IF i >= c.current_height_ THEN [ok |-> TRUE, c |-> c]
    ELSE IF i >= Len(path) THEN [ok |-> FALSE, c |-> c]
    ELSE LET p == path[i + 1] IN
         IF ~CanRead(c, p, i) THEN [ok |-> FALSE, c |-> c]
         ELSE IF c.forward[p][i + 1] # current THEN [ok |-> TRUE, c |-> c]
         ELSE IF ~CanRead(c, current, i) THEN [ok |-> FALSE, c |-> c]
         ELSE UnlinkDropsTail([c EXCEPT !.forward[p][i + 1] = nullptr], path, current, i + 1)

\* the unlink stops after level 0
RECURSIVE UnlinkLevel0Only(_, _, _, _)
UnlinkLevel0Only(c, path, current, i) ==
    IF i >= c.current_height_ \/ i >= 1 THEN [ok |-> TRUE, c |-> c]
    ELSE IF i >= Len(path) THEN [ok |-> FALSE, c |-> c]
    ELSE LET p == path[i + 1] IN
         IF ~CanRead(c, p, i) THEN [ok |-> FALSE, c |-> c]
         ELSE IF c.forward[p][i + 1] # current THEN [ok |-> TRUE, c |-> c]
         ELSE IF ~CanRead(c, current, i) THEN [ok |-> FALSE, c |-> c]
         ELSE UnlinkLevel0Only([c EXCEPT !.forward[p][i + 1] = c.forward[current][i + 1]],
                               path, current, i + 1)

\* for (int i = 0; i < current_height_; ++i) {
\*     if (update_path[i]->forward[i] != current) break;
\*     update_path[i]->forward[i] = current->forward[i]; }
RECURSIVE Unlink(_, _, _, _)
Unlink(c, path, current, i) ==
    IF i >= c.current_height_ THEN [ok |-> TRUE, c |-> c]
    ELSE IF i >= Len(path) THEN [ok |-> FALSE, c |-> c]
    ELSE LET p == path[i + 1] IN
         IF ~CanRead(c, p, i) THEN [ok |-> FALSE, c |-> c]
         ELSE IF c.forward[p][i + 1] # current THEN [ok |-> TRUE, c |-> c]
         ELSE IF ~CanRead(c, current, i) THEN [ok |-> FALSE, c |-> c]
         ELSE Unlink([c EXCEPT !.forward[p][i + 1] = c.forward[current][i + 1]],
                     path, current, i + 1)

\* delete current;
\* the removed node is never freed
DeleteLeaks(c, current) == c

Delete(c, current) ==
    [c EXCEPT !.allocated = @ \ {current},
              !.forward[current] = <<>>,
              !.value[current] = 0]

\* while (current_height_ > 0 && sentinel_head_->forward[current_height_ - 1] == nullptr)
\*     --current_height_;
RECURSIVE TrimHeight(_, _)
TrimHeight(c, height) ==
    IF height <= 0 THEN height
    ELSE IF ~CanRead(c, sentinel_head_, height - 1) THEN UB
    ELSE IF c.forward[sentinel_head_][height] = nullptr THEN TrimHeight(c, height - 1)
    ELSE height

\* The part of erase after the node was found.
EraseFound(v, current, path) ==
    LET u == Unlink(Now, path, current, 0)
        c1 == Delete(u.c, current)
        h == TrimHeight(c1, c1.current_height_)
    IN IF ~u.ok \/ current \notin Now.allocated \/ h < 0 THEN Abort("erase", v, UB)
       ELSE /\ Commit([c1 EXCEPT !.current_height_ = h, !.element_count_ = @ - 1])
            /\ last' = Call("erase", v, "true", nullptr, 0)
            /\ inserted' = inserted \ {v}
            /\ round_trip' = DrainNext(v)

\* return false;  (empty list, or element not found)
EraseMissing(v) ==
    /\ last' = Call("erase", v, "false", nullptr, 0)
    /\ inserted' = inserted \ {v}
    /\ round_trip' = DrainNext(v)
    /\ UNCHANGED <<forward, value, allocated, current_height_, element_count_, status>>

Erase(v) ==
    /\ status = "ok"
    /\ UNCHANGED <<current_node_, advances, twin>>
    /\ IF empty(Now) THEN EraseMissing(v)
       ELSE LET d == SearchPath(Now, sentinel_head_, current_height_ - 1, v,
                                NullVector(MAX_HEIGHT))
                cand == Successor0(Now, d.current)
            IN IF cand < 0 THEN Abort("erase", v, cand)
               ELSE IF Dangling(Now, cand) THEN Abort("erase", v, UB)
               ELSE IF ~Matches(Now, cand, v) THEN EraseMissing(v)
               ELSE EraseFound(v, cand, d.update_path)

\* ------------------------------------------------------------------- clear
\* while (current) { next = current->forward[0]; delete current; current = next; }
RECURSIVE FreeChain(_, _)
FreeChain(c, current) ==
    IF current = nullptr THEN [ok |-> TRUE, c |-> c]
    ELSE IF ~CanRead(c, current, 0) \/ current = sentinel_head_ THEN [ok |-> FALSE, c |-> c]
    ELSE FreeChain(Delete(c, current), c.forward[current][1])

\* only the level-0 link of the sentinel is reset
FilledLevel0(c) ==
    [c EXCEPT !.forward[sentinel_head_][1] = nullptr]

\* std::fill(sentinel_head_->forward.begin(), sentinel_head_->forward.end(), nullptr);
FilledForward(c) ==
    [c EXCEPT !.forward[sentinel_head_] = NullVector(Len(c.forward[sentinel_head_]))]

\* last.arg of a clear is the number of nodes it freed.
Clear ==
    /\ status = "ok"
    /\ UNCHANGED <<current_node_, advances, twin>>
    /\ LET r == FreeChain(Now, begin(Now)) IN
       IF ~r.ok THEN Abort("clear", 0, UB)
       ELSE /\ Commit([FilledForward(r.c) EXCEPT !.current_height_ = 0, !.element_count_ = 0])
            /\ last' = Call("clear", Cardinality(allocated \ r.c.allocated), "void", nullptr, 0)
            /\ inserted' = {}
            /\ round_trip' = "off"

\* ----------------------------------------------------------- contains, find
\* the descent starts one level too high
containsFromTop(c, v) ==
    LET cand == Successor0(c, Locate(c, sentinel_head_, c.current_height_, v)) IN
    IF cand < 0 THEN cand
    ELSE IF Dangling(c, cand) THEN UB
    ELSE IF Matches(c, cand, v) THEN 1 ELSE 0

\* 1 for true, 0 for false, or the marker of an abnormal end
containsResult(c, v) ==
    LET cand == Successor0(c, Locate(c, sentinel_head_, c.current_height_ - 1, v)) IN
    IF cand < 0 THEN cand
    ELSE IF Dangling(c, cand) THEN UB
    ELSE IF Matches(c, cand, v) THEN 1 ELSE 0

\* the first node not below the key is returned, whatever its key
findLowerBound(c, v) ==
    LET cand == Successor0(c, Locate(c, sentinel_head_, c.current_height_ - 1, v)) IN
    IF cand < 0 THEN cand
    ELSE IF Dangling(c, cand) THEN UB
    ELSE cand

\* the node the returned iterator wraps (nullptr for end()), or a marker
findResult(c, v) ==
    LET cand == Successor0(c, Locate(c, sentinel_head_, c.current_height_ - 1, v)) IN
    IF cand < 0 THEN cand
    ELSE IF Dangling(c, cand) THEN UB
    ELSE IF Matches(c, cand, v) THEN cand ELSE end

\* the lookup trims current_height_ on its way
ContainsTrims(v) ==
    /\ status = "ok"
    /\ UNCHANGED <<current_node_, advances, twin>>
    /\ LET r == containsResult(Now, v) IN
       IF r < 0 THEN Abort("contains", v, r)
       ELSE /\ last' = Call("contains", v, IF r = 1 THEN "true" ELSE "false", nullptr, 0)
            /\ current_height_' = TrimHeight(Now, current_height_)
            /\ UNCHANGED <<forward, value, allocated,
                           element_count_, status, inserted, round_trip>>

Contains(v) ==
    /\ status = "ok"
    /\ UNCHANGED <<current_node_, advances, twin>>
    /\ LET r == containsResult(Now, v) IN
       IF r < 0 THEN Abort("contains", v, r)
       ELSE /\ last' = Call("contains", v, IF r = 1 THEN "true" ELSE "false", nullptr, 0)
            /\ UNCHANGED <<forward, value, allocated, current_height_,
                           element_count_, status, inserted, round_trip>>

Find(v) ==
    /\ status = "ok"
    /\ UNCHANGED <<current_node_, advances, twin>>
    /\ LET r == findResult(Now, v) IN
       IF r < 0 THEN Abort("find", v, r)
       ELSE /\ last' = Call("find", v, "iterator", r, 0)
            /\ UNCHANGED <<forward, value, allocated, current_height_,
                           element_count_, status, inserted, round_trip>>

\* ----------------------------------------------------------- specification
Next ==
    \/ \E v \in Keys : Insert(v)
    \/ \E v \in Keys : Erase(v)
    \/ \E v \in Keys : Contains(v)
    \/ \E v \in Keys : Find(v)
    \/ Clear

Spec == Init /\ [][Next]_vars

\* ------------------------------------------------------------------- typing
TypeOK ==
    /\ allocated \subseteq Addrs
    /\ sentinel_head_ \in allocated
    /\ current_height_ \in 0..MAX_HEIGHT
    /\ element_count_ \in 0..MaxNodes
    /\ last.op \in {"init", "insert", "erase", "contains", "find", "clear"}
    /\ status = "ok"
    /\ inserted \subseteq Keys
    /\ round_trip \in {"off", "fill", "drain"}
    /\ current_node_ \in Addrs \cup {nullptr, NoIterator}
    /\ advances \in 0..(MaxNodes + 1)
    /\ \A a \in Addrs : value[a] \in Keys /\ Len(forward[a]) \in 0..MAX_HEIGHT

\* --------------------------------------------------------------- iteration
\* for (auto it = begin(); it != end(); ++it) push_back(it.current_node_);
\* operator++ follows forward[0].  A walk is cut after MaxNodes + 1 nodes, one
\* more than the heap can hold, and a node that cannot be read yields nullptr.
RECURSIVE Iterate(_, _, _)
Iterate(c, it, fuel) ==
    IF it = end \/ fuel = 0 THEN <<>>
    ELSE IF ~CanRead(c, it, 0) THEN <<nullptr>>
    ELSE <<it>> \o Iterate(c, c.forward[it][1], fuel - 1)

\* the nodes a traversal visits, and the keys operator* yields for them
Chain(c) == Iterate(c, begin(c), MaxNodes + 1)

Traversal(c) ==
    LET ch == Chain(c) IN
    [k \in 1..Len(ch) |-> IF ch[k] = nullptr THEN UB ELSE c.value[ch[k]]]

ChainNodes(c) == LET ch == Chain(c) IN {ch[k] : k \in 1..Len(ch)}
Stored(c) == LET t == Traversal(c) IN {t[k] : k \in 1..Len(t)}

\* ---------------------------------------------------------------- iterator
\* operator++ follows the link of the node's top level
IncrementTopLevel(c, it) ==
    IF it = nullptr THEN nullptr
    ELSE IF ~CanRead(c, it, 0) THEN UB
    ELSE c.forward[it][Len(c.forward[it])]

\* if (current_node_) current_node_ = current_node_->forward[0];
Increment(c, it) ==
    IF it = nullptr THEN nullptr
    ELSE IF ~CanRead(c, it, 0) THEN UB
    ELSE c.forward[it][1]

\* auto it = list.begin();
Begin ==
    /\ status = "ok"
    /\ current_node_ = NoIterator
    /\ current_node_' = begin(Now)
    /\ advances' = 0
    /\ UNCHANGED <<forward, value, allocated, current_height_, element_count_, status,
                   last, inserted, round_trip, twin>>

\* ++it;  the count of advances is capped one past a full heap
Advance ==
    /\ status = "ok"
    /\ current_node_ # NoIterator
    /\ advances <= MaxNodes
    /\ LET nxt == Increment(Now, current_node_) IN
       /\ status' = (IF nxt = UB THEN "ub" ELSE "ok")
       /\ current_node_' = (IF nxt = UB THEN current_node_ ELSE nxt)
    /\ advances' = advances + 1
    /\ UNCHANGED <<forward, value, allocated, current_height_, element_count_,
                   last, inserted, round_trip, twin>>

\* the iterator goes out of scope
Release ==
    /\ status = "ok"
    /\ current_node_ # NoIterator
    /\ current_node_' = NoIterator
    /\ advances' = 0
    /\ UNCHANGED <<forward, value, allocated, current_height_, element_count_, status,
                   last, inserted, round_trip, twin>>

\* a traversal runs between two calls that change the container: the
\* container is changed only while the caller holds no iterator
NextIter ==
    \/ current_node_ = NoIterator /\ \E v \in Keys : Insert(v)
    \/ current_node_ = NoIterator /\ \E v \in Keys : Erase(v)
    \/ current_node_ = NoIterator /\ Clear
    \/ Begin
    \/ Advance
    \/ Release

SpecIter == Init /\ [][NextIter]_vars

\* ---------------------------------------------------------- two containers
\* The calls as functions of a container c: the container after the call, the
\* value returned ("ub" or "hang" for an abnormal end), the node an iterator
\* returned points to, and the height drawn.
Outcome(c, ret, pos, drawn) == [c |-> c, ret |-> ret, pos |-> pos, drawn |-> drawn]

Abnormal(c, mark) == Outcome(c, IF mark = HANG THEN "hang" ELSE "ub", nullptr, 0)

\* bool insert(const KeyType& value), run being the outcome of the coin
\* flips and enough whether the allocator has memory left
insert(c, v, run, enough) ==
    LET d == SearchPath(c, sentinel_head_, c.current_height_ - 1, v, NullVector(MAX_HEIGHT))
        cand == Successor0(c, d.current)
        newHeight == generateRandomHeight(run)
        path2 == RaisePath(c, d.update_path, newHeight)
        c1 == [c EXCEPT !.current_height_ = RaisedHeight(c, newHeight)]
        a == IF enough THEN NewNode(c1, v) ELSE nullptr
    IN IF cand < 0 THEN Abnormal(c, cand)
       ELSE IF Dangling(c, cand) THEN Abnormal(c, UB)
       ELSE IF Matches(c, cand, v) THEN Outcome(c, "false", nullptr, 0)
       ELSE IF newHeight > Len(d.update_path) /\ newHeight > c.current_height_
       THEN Abnormal(c, UB)
       ELSE IF a = nullptr THEN Outcome(c1, "bad_alloc", nullptr, newHeight)
       ELSE LET s == Splice(Construct(c1, a, newHeight, v), path2, a, 0, newHeight) IN
            IF ~s.ok THEN Abnormal(c, UB)
            ELSE Outcome([s.c EXCEPT !.element_count_ = @ + 1], "true", nullptr, newHeight)

\* bool erase(const KeyType& value)
erase(c, v) ==
    IF empty(c) THEN Outcome(c, "false", nullptr, 0)
    ELSE LET d == SearchPath(c, sentinel_head_, c.current_height_ - 1, v,
                             NullVector(MAX_HEIGHT))
             cand == Successor0(c, d.current)
         IN IF cand < 0 THEN Abnormal(c, cand)
            ELSE IF Dangling(c, cand) THEN Abnormal(c, UB)
            ELSE IF ~Matches(c, cand, v) THEN Outcome(c, "false", nullptr, 0)
            ELSE LET u == Unlink(c, d.update_path, cand, 0)
                     c1 == Delete(u.c, cand)
                     h == TrimHeight(c1, c1.current_height_)
                 IN IF ~u.ok \/ h < 0 THEN Abnormal(c, UB)
                    ELSE Outcome([c1 EXCEPT !.current_height_ = h, !.element_count_ = @ - 1],
                                 "true", nullptr, 0)

\* void clear()
clear(c) ==
    LET r == FreeChain(c, begin(c)) IN
    IF ~r.ok THEN Abnormal(c, UB)
    ELSE Outcome([FilledForward(r.c) EXCEPT !.current_height_ = 0, !.element_count_ = 0],
                 "void", nullptr, 0)

\* bool contains(const KeyType& value) const
contains(c, v) ==
    LET r == containsResult(c, v) IN
    IF r < 0 THEN Abnormal(c, r)
    ELSE Outcome(c, IF r = 1 THEN "true" ELSE "false", nullptr, 0)

\* iterator find(const KeyType& value) const
find(c, v) ==
    LET r == findResult(c, v) IN
    IF r < 0 THEN Abnormal(c, r)
    ELSE Outcome(c, "iterator", r, 0)

\* One call made on both containers, a on this one and b on the twin.
Both(op, v, a, b) ==
    /\ status = "ok"
    /\ current_node_ = NoIterator
    /\ IF {a.ret, b.ret} \cap {"ub", "hang"} # {}
       THEN /\ Abort(op, v, IF "hang" \in {a.ret, b.ret} THEN HANG ELSE UB)
            /\ UNCHANGED twin
       ELSE /\ Commit(a.c)
            /\ last' = Call(op, v, a.ret, a.pos, a.drawn)
            /\ twin' = [b.c EXCEPT !.ret = b.ret, !.pos = b.pos]
            /\ inserted' = (CASE op = "insert" /\ a.ret # "bad_alloc" -> inserted \cup {v}
                              [] op = "erase" -> inserted \ {v}
                              [] op = "clear" -> {}
                              [] OTHER -> inserted)
            /\ round_trip' = "off"
    /\ UNCHANGED <<current_node_, advances>>

\* The two containers draw their heights independently; the allocator fails
\* for both or for neither.
BothInsert(v) ==
    \E run \in FlipRuns, twinRun \in TwinRuns, enough \in BOOLEAN :
        Both("insert", v, insert(Now, v, run, enough), insert(twin, v, twinRun, enough))

BothErase(v) == Both("erase", v, erase(Now, v), erase(twin, v))

BothContains(v) == Both("contains", v, contains(Now, v), contains(twin, v))

BothFind(v) == Both("find", v, find(Now, v), find(twin, v))

BothClear == Both("clear", 0, clear(Now), clear(twin))

NextBoth ==
    \/ \E v \in Keys : BothInsert(v)
    \/ \E v \in Keys : BothErase(v)
    \/ \E v \in Keys : BothContains(v)
    \/ \E v \in Keys : BothFind(v)
    \/ BothClear

SpecBoth == Init /\ [][NextBoth]_vars

\* ------------------------------------------------------ vocabulary of claims
StrictlyAscending(seq) == \A k \in 1..(Len(seq) - 1) : seq[k] < seq[k + 1]

\* the ascending sequence of the keys of a set
RECURSIVE Sorted(_)
Sorted(S) ==
    IF S = {} THEN <<>>
    ELSE LET m == CHOOSE x \in S : \A y \in S : x <= y IN <<m>> \o Sorted(S \ {m})

Height(n) == Len(forward[n])
HeapUnchanged == UNCHANGED <<forward, value, allocated, current_height_, element_count_, status>>

\* ------------------------------------------------------------------ claims

\* C1: in every reachable state the walk of the level-0 chain from begin()
\* to end() yields strictly ascending keys, and the keys it yields are
\* exactly the keys inserted and not since erased or cleared.
C1_OrderInvariant ==
    /\ status = "ok"
    /\ StrictlyAscending(Traversal(Now))
    /\ Stored(Now) = inserted

\* the middle key was inserted last, between two taller nodes
C1_Witness ==
    /\ last.op = "insert" /\ last.ret = "true" /\ last.arg = 1
    /\ Traversal(Now) = <<0, 1, 2>>
    /\ Height(NodeOf(0)) > Height(NodeOf(1))
    /\ Height(NodeOf(1)) < Height(NodeOf(2))

\* C2: a call insert(v) that returns, returns true iff v was not in the
\* container before; after a true return contains(v) holds, size() grew by
\* exactly 1 and the membership of every other key is as before.
C2_InsertStep ==
    \A v \in Keys : (last'.op = "insert" /\ last'.arg = v) =>
        /\ last'.ret \in {"true", "false", "bad_alloc"}
        /\ last'.ret = "true" => v \notin Stored(Now)
        /\ last'.ret = "false" => v \in Stored(Now)
        /\ last'.ret = "true" =>
              /\ containsResult(After, v) = 1
              /\ size(After) = size(Now) + 1
              /\ \A k \in Keys \ {v} : containsResult(After, k) = containsResult(Now, k)

C2_Insert == [][C2_InsertStep]_vars

\* a successful insert of the smallest key into a container holding two keys
C2_Witness ==
    /\ last.op = "insert" /\ last.ret = "true" /\ last.arg = 0
    /\ size(Now) = 3 /\ containsResult(Now, 0) = 1

\* C3: inserting a key that is already present returns false and leaves
\* size(), current_height_, every forward link and the set of allocated
\* nodes as they were, and draws no height.
C3_DuplicateStep ==
    (last'.op = "insert" /\ last'.arg \in Stored(Now)) =>
        /\ last'.ret = "false"
        /\ last'.drawn = 0
        /\ HeapUnchanged

C3_DuplicateInsert == [][C3_DuplicateStep]_vars

\* a rejected insert of the middle key of three
C3_Witness ==
    /\ last.op = "insert" /\ last.ret = "false" /\ last.arg = 1
    /\ size(Now) = 3

\* C4: erase(k) returns true iff k was in the container before; after a
\* true return contains(k) is false, size() fell by exactly 1 and every
\* other key that was present still is.
C4_EraseStep ==
    \A k \in Keys : (last'.op = "erase" /\ last'.arg = k) =>
        /\ last'.ret \in {"true", "false"}
        /\ last'.ret = "true" <=> k \in Stored(Now)
        /\ last'.ret = "true" =>
              /\ containsResult(After, k) = 0
              /\ size(After) = size(Now) - 1
              /\ \A j \in Stored(Now) \ {k} : containsResult(After, j) = 1

C4_Erase == [][C4_EraseStep]_vars

\* the middle key of three was erased, the first and the last remain
C4_Witness ==
    /\ last.op = "erase" /\ last.ret = "true" /\ last.arg = 1
    /\ Traversal(Now) = <<0, 2>>

\* C5: erase(k) of a key that is not in the container returns false and
\* leaves size(), current_height_, every forward link, the allocated nodes
\* and the membership of every key as they were.
C5_EraseMissingStep ==
    (last'.op = "erase" /\ last'.arg \notin Stored(Now)) =>
        /\ last'.ret = "false"
        /\ HeapUnchanged
        /\ \A j \in Keys : containsResult(After, j) = containsResult(Now, j)

C5_EraseMissing == [][C5_EraseMissingStep]_vars

\* a missing key was erased from a container holding the keys around it
C5_Witness ==
    /\ last.op = "erase" /\ last.ret = "false" /\ last.arg = 1
    /\ Traversal(Now) = <<0, 2>>

\* C6: for every key v, find(v) returns the position of the node on the
\* level-0 chain whose key is v exactly when contains(v) is true, and end()
\* exactly when contains(v) is false.
C6_FindAgreesWithContains ==
    \A v \in Keys :
        LET c == containsResult(Now, v)
            f == findResult(Now, v)
        IN /\ c \in {0, 1}
           /\ c = 1 => (f # end /\ f \in ChainNodes(Now) /\ value[f] = v)
           /\ c = 0 => f = end

\* find hit the middle key of three
C6_Witness ==
    /\ last.op = "find" /\ last.arg = 1 /\ last.pos = NodeOf(1)
    /\ Traversal(Now) = <<0, 1, 2>>
    /\ containsResult(Now, 1) = 1 /\ containsResult(Now, 0) = 1

\* C7: after clear(), in a populated or an empty container, size() is 0,
\* empty() holds, begin() == end(), contains(k) is false for every key,
\* current_height_ is 0 and every forward link of the sentinel is null.
C7_ClearStep ==
    last'.op = "clear" =>
        /\ last'.ret = "void"
        /\ size(After) = 0
        /\ empty(After)
        /\ begin(After) = end
        /\ \A k \in Keys : containsResult(After, k) = 0
        /\ current_height_' = 0
        /\ forward'[sentinel_head_] = NullVector(MAX_HEIGHT)

C7_Clear == [][C7_ClearStep]_vars

\* clear freed three nodes
C7_Witness ==
    /\ last.op = "clear" /\ last.ret = "void" /\ last.arg = 3
    /\ allocated = {sentinel_head_}

\* C8: on an empty container erase(k) and contains(k) return false for
\* every key without undefined behaviour, and begin() == end().
C8_EmptyStep ==
    /\ (inserted = {} /\ last'.op \in {"erase", "contains"}) =>
           (last'.ret = "false" /\ status' = "ok")
    /\ inserted' = {} => begin(After) = end

C8_EmptySafety == [][C8_EmptyStep]_vars

\* contains on a container emptied by erasing every key
C8_Witness ==
    /\ last.op = "contains" /\ last.ret = "false"
    /\ round_trip = "drain" /\ inserted = {}

\* C9: from an empty container, inserting the distinct keys 0..N-1 in any
\* order returns true each time, after which size() is N, every key is found
\* and iteration yields 0..N-1; erasing the N keys in any order then returns
\* true each time and leaves the container empty with size() 0.
C9_RoundTripStep ==
    /\ (last'.op = "insert" /\ round_trip' = "fill") => last'.ret = "true"
    /\ (round_trip' = "fill" /\ inserted' = Keys) =>
           /\ size(After) = Cardinality(Keys)
           /\ \A k \in Keys : containsResult(After, k) = 1 /\ findResult(After, k) # end
           /\ Traversal(After) = Sorted(Keys)
    /\ (last'.op = "erase" /\ round_trip' = "drain") => last'.ret = "true"
    /\ (round_trip' = "drain" /\ inserted' = {}) =>
           /\ empty(After)
           /\ size(After) = 0
           /\ begin(After) = end

C9_RoundTrip == [][C9_RoundTripStep]_vars

\* the last key of a drain was erased
C9_Witness ==
    /\ last.op = "erase" /\ last.ret = "true"
    /\ round_trip = "drain" /\ inserted = {}

\* C10: element_count_ is the number of real nodes on the level-0 chain,
\* and empty() holds exactly when begin() == end().
C10_CountInvariant ==
    /\ element_count_ = Len(Chain(Now))
    /\ ChainNodes(Now) \subseteq allocated \ {sentinel_head_}
    /\ empty(Now) <=> begin(Now) = end

\* an erase left two nodes behind
C10_Witness ==
    /\ last.op = "erase" /\ last.ret = "true"
    /\ element_count_ = 2 /\ Len(Chain(Now)) = 2

\* C11: contains(v) and find(v) mutate nothing: element_count_,
\* current_height_, every forward link, every value and the set of allocated
\* nodes are the same before and after the call.
C11_ObserverStep ==
    last'.op \in {"contains", "find"} =>
        /\ last'.ret \in {"true", "false", "iterator"}
        /\ HeapUnchanged

C11_ObserversMutateNothing == [][C11_ObserverStep]_vars

\* contains missed on an empty container whose current_height_ a failed
\* allocation had raised to MAX_HEIGHT
C11_Witness ==
    /\ last.op = "contains" /\ last.ret = "false"
    /\ current_height_ = MAX_HEIGHT /\ element_count_ = 0

\* the maximum height among the real nodes, 0 when there are none
MaxNodeHeight(c) ==
    LET hs == {Len(c.forward[n]) : n \in c.allocated \ {sentinel_head_}} IN
    IF hs = {} THEN 0 ELSE CHOOSE h \in hs : \A g \in hs : g <= h

\* C12: in every reachable state current_height_ is the maximum height among
\* the real nodes, or 0 when there are none; the links of the sentinel at
\* every level at or above current_height_ are null, and after an erase the
\* link of the sentinel at level current_height_ - 1 is not null.
C12_HeightInvariant ==
    /\ current_height_ = MaxNodeHeight(Now)
    /\ \A i \in current_height_..(MAX_HEIGHT - 1) : forward[sentinel_head_][i + 1] = nullptr
    /\ (last.op = "erase" /\ last.ret = "true" /\ current_height_ > 0) =>
           forward[sentinel_head_][current_height_] # nullptr

\* the nodes reached from `it` along the links of level i; the walk is cut
\* after fuel nodes, and a node that cannot be read at level i yields nullptr
RECURSIVE LevelWalk(_, _, _, _)
LevelWalk(c, it, i, fuel) ==
    IF it = nullptr \/ fuel = 0 THEN <<>>
    ELSE IF ~CanRead(c, it, i) THEN <<nullptr>>
    ELSE <<it>> \o LevelWalk(c, c.forward[it][i + 1], i, fuel - 1)

LevelChain(c, i) == LevelWalk(c, c.forward[sentinel_head_][i + 1], i, MaxNodes + 1)

\* C13: for every level i below current_height_ the nodes reached from the
\* sentinel along level-i links have strictly increasing keys, are exactly
\* the real nodes of height above i, and are a subsequence of the level-0
\* chain.
C13_LevelInvariant ==
    \A i \in 0..(current_height_ - 1) :
        LET L == LevelChain(Now, i)
            Tall(n) == n # nullptr /\ Len(forward[n]) > i
        IN /\ \A k \in 1..Len(L) : L[k] \in allocated \ {sentinel_head_}
           /\ StrictlyAscending([k \in 1..Len(L) |-> value[L[k]]])
           /\ {L[k] : k \in 1..Len(L)} = {n \in allocated \ {sentinel_head_} : Tall(n)}
           /\ L = SelectSeq(Chain(Now), Tall)

\* the level-1 chain skips the middle node of three
C13_Witness ==
    /\ last.op = "insert" /\ last.ret = "true"
    /\ Chain(Now) = <<NodeOf(0), NodeOf(1), NodeOf(2)>>
    /\ Height(NodeOf(1)) = 1
    /\ LevelChain(Now, 1) = <<NodeOf(0), NodeOf(2)>>
    /\ LevelChain(Now, 2) = <<NodeOf(2)>>

\* the links (node, level) of the container c that target the node n
LinksTo(c, n) ==
    {<<p, i>> \in c.allocated \X (0..(MAX_HEIGHT - 1)) :
        i < Len(c.forward[p]) /\ c.forward[p][i + 1] = n}

\* C14: a successful erase unlinks the removed node at exactly the levels
\* 0..height-1 of that node, without reading its forward vector at or above
\* its height; afterwards no forward link of the sentinel or of a remaining
\* node targets the removed node.
C14_UnlinkStep ==
    \A k \in Keys : (last'.op = "erase" /\ last'.arg = k /\ last'.ret = "true") =>
        LET n == findResult(Now, k)
            h == Len(forward[n])
        IN /\ status' = "ok"
           /\ n \in allocated /\ n \notin allocated'
           /\ {l[2] : l \in LinksTo(Now, n)} = 0..(h - 1)
           /\ Cardinality(LinksTo(Now, n)) = h
           /\ \A l \in LinksTo(Now, n) : forward'[l[1]][l[2] + 1] = forward[n][l[2] + 1]
           /\ LinksTo(After, n) = {}
           /\ \A p \in allocated' : \A i \in 0..(Len(forward[p]) - 1) :
                  forward[p][i + 1] # n => forward'[p][i + 1] = forward[p][i + 1]

C15_Allocated(c, st) ==
    /\ st = "ok"
    /\ sentinel_head_ \in c.allocated
    /\ c.allocated \ {sentinel_head_} = ChainNodes(c)
    /\ Cardinality(ChainNodes(c)) = Len(Chain(c))

C15_LifecycleStep ==
    /\ (last'.op = "insert" /\ last'.ret = "true") =>
           /\ allocated \subseteq allocated'
           /\ Cardinality(allocated' \ allocated) = 1
    /\ (last'.op = "erase" /\ last'.ret = "true") =>
           /\ allocated' \subseteq allocated
           /\ Cardinality(allocated \ allocated') = 1
    /\ (last'.op = "clear") =>
           /\ allocated' = {sentinel_head_}
           /\ last'.arg = Cardinality(allocated \ {sentinel_head_})
    /\ (last'.op \in {"insert", "erase"} /\ last'.ret \in {"false", "bad_alloc"}) =>
           allocated' = allocated
    /\ (last'.op \in {"contains", "find"}) => allocated' = allocated

C15_Lifecycle ==
    [][C15_LifecycleStep /\ C15_Allocated(Now, status) /\ C15_Allocated(After, status')]_vars

\* two nodes remain after an erase freed the third
C15_Witness ==
    /\ last.op = "erase" /\ last.ret = "true"
    /\ allocated = {sentinel_head_, NodeOf(0), NodeOf(2)}
    /\ ChainNodes(Now) = {NodeOf(0), NodeOf(2)}

\* C16: every drawn height lies in 1..MAX_HEIGHT for every run of coin
\* flips, so every real node has between 1 and MAX_HEIGHT forward slots,
\* current_height_ never exceeds MAX_HEIGHT, the sentinel keeps its
\* MAX_HEIGHT slots, and no operation indexes the sentinel's slots or the
\* update path out of range.
C16_HeightRange ==
    /\ \A run \in 0..(MAX_HEIGHT + 2) : generateRandomHeight(run) \in 1..MAX_HEIGHT
    /\ \A run \in 0..(MAX_HEIGHT - 1) : generateRandomHeight(run) = run + 1
    /\ \A n \in allocated \ {sentinel_head_} : Len(forward[n]) \in 1..MAX_HEIGHT
    /\ Len(forward[sentinel_head_]) = MAX_HEIGHT
    /\ current_height_ \in 0..MAX_HEIGHT
    /\ (last.op = "insert" /\ last.ret \in {"true", "bad_alloc"}) => last.drawn \in 1..MAX_HEIGHT
    /\ status = "ok"

\* a node of the maximum height was inserted after the coin kept winning
C16_Witness ==
    /\ last.op = "insert" /\ last.ret = "true" /\ last.drawn = MAX_HEIGHT
    /\ current_height_ = MAX_HEIGHT
    /\ \E n \in allocated \ {sentinel_head_} :
           Len(forward[n]) = MAX_HEIGHT /\ forward[sentinel_head_][MAX_HEIGHT] = n

\* C17: when the descent of insert or erase for a key v finishes, at every
\* level i below current_height_ update_path[i] is the sentinel or a node
\* with key below v and its level-i successor is none or has a key not below
\* v; the level-0 successor of update_path[0] is the only node that can hold
\* v, and v is present exactly when that node exists with key v.
C17_Descent ==
    \A v \in Keys :
        LET d == SearchPath(Now, sentinel_head_, current_height_ - 1, v,
                            NullVector(MAX_HEIGHT))
            cand == Successor0(Now, d.current)
        IN /\ d.current \in allocated
           /\ \A i \in 0..(current_height_ - 1) :
                  LET p == d.update_path[i + 1] IN
                  /\ p \in allocated
                  /\ p = sentinel_head_ \/ value[p] < v
                  /\ i < Len(forward[p])
                  /\ LET s == forward[p][i + 1] IN
                     s = nullptr \/ (s \in allocated /\ value[s] >= v)
           /\ d.current = (IF current_height_ > 0 THEN d.update_path[1] ELSE sentinel_head_)
           /\ (v \in Stored(Now)) <=> Matches(Now, cand, v)
           /\ \A n \in allocated \ {sentinel_head_} : value[n] = v => n = cand

\* a duplicate insert of the largest key whose descent left the sentinel's
\* top level, stayed on the first node at level 1 and ended on the middle node
C17_Witness ==
    /\ last.op = "insert" /\ last.arg = 2 /\ last.ret = "false"
    /\ Chain(Now) = <<NodeOf(0), NodeOf(1), NodeOf(2)>>
    /\ Height(NodeOf(0)) = 2 /\ Height(NodeOf(1)) = 1 /\ Height(NodeOf(2)) = 3
    /\ LET d == SearchPath(Now, sentinel_head_, current_height_ - 1, 2,
                           NullVector(MAX_HEIGHT))
       IN /\ d.update_path[3] = sentinel_head_
          /\ d.update_path[2] = NodeOf(0)
          /\ d.update_path[1] = NodeOf(1)
          /\ Successor0(Now, d.current) = NodeOf(2)

\* C18: forward iteration follows level-0 links only. From begin(), after
\* k advances with k below size() the position is the node holding the
\* (k+1)-th smallest key and differs from end(); after exactly size()
\* advances it equals end(), and advancing end() leaves it at end().
C18_Iteration ==
    /\ status = "ok"
    /\ current_node_ # NoIterator =>
           IF advances < size(Now)
           THEN /\ current_node_ # end
                /\ current_node_ \in allocated \ {sentinel_head_}
                /\ value[current_node_] = Sorted(inserted)[advances + 1]
                /\ current_node_ = Chain(Now)[advances + 1]
           ELSE current_node_ = end

\* an iterator over two nodes was advanced once past end()
C18_Witness ==
    /\ element_count_ = 2
    /\ Height(begin(Now)) = 3
    /\ advances = 3
    /\ current_node_ = end

\* C19: every operation terminates from every reachable state. No call ran
\* out of steps; the chain of every level is finite and acyclic, ending at
\* none after at most as many nodes as are allocated; hence the descent for
\* every key, the free loop of clear and a full begin()-to-end() traversal
\* all end.
C19_Termination ==
    /\ status # "hang"
    /\ \A i \in 0..(MAX_HEIGHT - 1) :
           LET L == LevelChain(Now, i) IN
           /\ Len(L) <= Cardinality(allocated \ {sentinel_head_})
           /\ \A j, k \in 1..Len(L) : L[j] = L[k] => j = k
           /\ \A k \in 1..Len(L) : L[k] # nullptr
    /\ \A v \in Keys :
           /\ Locate(Now, sentinel_head_, current_height_ - 1, v) > 0
           /\ SearchPath(Now, sentinel_head_, current_height_ - 1, v,
                         NullVector(MAX_HEIGHT)).current > 0
    /\ Len(Chain(Now)) = size(Now)
    /\ FreeChain(Now, begin(Now)).ok

\* a lookup of the largest key ended on a full list whose top level links
\* two nodes
C19_Witness ==
    /\ last.op = "find" /\ last.arg = MaxKey /\ last.pos = NodeOf(MaxKey)
    /\ element_count_ = MaxNodes
    /\ current_height_ = MAX_HEIGHT
    /\ Len(LevelChain(Now, MAX_HEIGHT - 1)) = 2

\* C20: if node allocation fails during insert of an absent key, the failure
\* propagates and the container is left in its pre-call state: element_count_,
\* current_height_ and every forward link are unchanged, so current_height_
\* still equals the maximum height among real nodes.
C20_BadAllocStep ==
    (last'.op = "insert" /\ last'.ret = "bad_alloc") =>
        /\ status' = "ok"
        /\ HeapUnchanged
        /\ inserted' = inserted
        /\ current_height_' = MaxNodeHeight(After)

C20_BadAllocLeavesState == [][C20_BadAllocStep]_vars

\* C21: observable behaviour does not depend on the random heights. Two
\* containers given the same calls but different height draws return the
\* same result from every call (find: the same key, or end() in both),
\* report the same size() and empty(), and yield the same iteration sequence.
C21_HeightIndependence ==
    /\ status = "ok"
    /\ last.op # "init" => twin.ret = last.ret
    /\ (last.pos = end) <=> (twin.pos = end)
    /\ last.pos # end =>
           /\ last.pos \in allocated /\ twin.pos \in twin.allocated
           /\ value[last.pos] = twin.value[twin.pos]
    /\ size(Now) = size(twin)
    /\ empty(Now) = empty(twin)
    /\ Traversal(Now) = Traversal(twin)

\* find(1) answered by two containers of three keys whose nodes and whose
\* current_height_ differ in height
C21_Witness ==
    /\ last.op = "find" /\ last.arg = 1 /\ last.pos # end /\ twin.pos # end
    /\ Traversal(Now) = <<0, 1, 2>>
    /\ current_height_ = MAX_HEIGHT /\ twin.current_height_ = 1
    /\ Len(forward[last.pos]) = 3 /\ Len(twin.forward[twin.pos]) = 1
    /\ LevelChain(Now, 1) # LevelChain(twin, 1)

====
